---- MODULE Spec2Model ----
(***************************************************************************)
(* Usage accounting and admission control of the Whisper proxy backend:   *)
(* the reservation / confirm / commit / rollback engine of                *)
(* backend/usage_store.py (class UsageStore).                             *)
(*                                                                         *)
(* Every method of UsageStore runs its whole body under `async with       *)
(* self._lock` and contains no await inside the critical section, so one  *)
(* method call is one atomic action here.  date.today() is the variable   *)
(* `today`, advanced by the action Tick.                                  *)
(***************************************************************************)
EXTENDS Integers, FiniteSets, Sequences, TLC

\* ------------------------------------------------------------------ bounds
MaxDay      == 2   \* the wall clock runs over the days 0..MaxDay
MaxConc     == 2   \* concurrency limits range over 1..MaxConc
MaxLimit    == 1   \* minute limits range over 0..MaxLimit (0 = not set)
MaxMinutes  == 2   \* estimated and actual minutes range over 1..MaxMinutes
MaxUsage    == 2   \* committed minutes of one record stay within 0..MaxUsage

\* days per calendar month of the model's calendar (day d lies in month
\* d \div DaysPerMonth): with 2, day 0 -> 1 stays in the month and day
\* 1 -> 2 crosses a month boundary
DaysPerMonth == 2
MaxTime == 2      \* seconds the monotonic clock advances
MaxRate == 2      \* largest rate (bucket capacity) passed to allow
MaxCost == 2      \* largest cost passed to allow
MaxWindow == 2    \* largest window_seconds passed to allow
MaxCalls == 3     \* longest burst of calls that is counted
MaxRpm == 3       \* the rpm_per_user and rpm_per_tenant settings
DefaultWindow == 60   \* window_seconds of RateLimiter.hit

Users   == {"u1", "u2"}
Tenants == {"t1"}
Ids     == {"j1", "j2"}    \* job ids and task ids share one key space
Keys    == {"user:u1", "tenant:t1"}   \* rate limiter scopes
Reqs    == {"r1", "r2"}    \* transcribe invocations, also their uuid4
IdemKeys == {"i1"}         \* Idempotency-Key header values
None    == "-"

VARIABLES
    today,            \* date.today(): the current day number
    limits,           \* the limits dict handed to every reserve call
    user_records,     \* UsageStore._user_records  : user id   -> UsageRecord
    tenant_records,   \* UsageStore._tenant_records: tenant id -> UsageRecord
    jobs,             \* UsageStore._jobs          : key       -> UsageJob
    last,             \* the call made by the last step and its outcome
    track,            \* history: the reservation followed for conservation
    confirmed,        \* history: the keys of the live jobs confirm has re-keyed
    now,              \* time.monotonic(), in seconds
    buckets,          \* InMemoryTokenBucket._buckets: key -> (tokens, last)
    redis,            \* the hashes REDIS_SCRIPT keeps, each with its expiry
    calls,            \* history: the burst of calls that opened each scope
    reqs,             \* the transcribe invocations and where each one stands
    poll,             \* the status invocation and where it stands
    idem_cache,       \* main._idem_cache: (user, Idempotency-Key) -> payload
    settings,         \* the rate settings: rpm_per_user, rpm_per_tenant
    store_lock,       \* UsageStore._lock: the coroutine holding it, if any
    idem_lock,        \* main._idem_lock: the coroutine holding it, if any
    tasks             \* the coroutines followed statement by statement

vars == <<today, limits, user_records, tenant_records, jobs, last, track,
          confirmed, now, buckets, redis, calls, reqs, poll, idem_cache,
          settings, store_lock, idem_lock, tasks>>

\* the state of the request handlers, which store and limiter never touch
handlers == <<reqs, poll, idem_cache, settings, store_lock, idem_lock,
              tasks>>

\* the state of the rate limiter, which the usage store never touches
limiter == <<now, buckets, redis, calls>>

\* the state of the usage store, which the rate limiter never touches
store == <<today, limits, user_records, tenant_records, jobs, track,
           confirmed>>

\* the variables that the plain store specifications leave alone
aux == <<track, confirmed, limiter, handlers>>

\* ------------------------------------------------------------ data types
MonthOf(d) == d \div DaysPerMonth

\* UsageRecord(day=date.today(), month=(year, month)) with its defaults
NewRecord(d) ==
    [day |-> d, month |-> MonthOf(d), minutes_today |-> 0,
     minutes_month |-> 0, reserved_minutes |-> 0, active_jobs |-> 0]

\* UsageJob(user_id, tenant_id, minutes, task_id=...)
UsageJob(u, t, m, k) ==
    [user_id |-> u, tenant_id |-> t, reserved_minutes |-> m, task_id |-> k]

\* the limits dict built by the transcribe handler from the settings
LimitsSet ==
    [concurrent_user : 1..MaxConc, concurrent_tenant : 1..MaxConc,
     minutes_per_day : 0..MaxLimit, minutes_per_month : 0..MaxLimit]

Max(a, b) == IF a >= b THEN a ELSE b

\* dict assignment d[k] = v and d.pop(k)
Put(f, k, v) == [x \in (DOMAIN f) \cup {k} |-> IF x = k THEN v ELSE f[x]]
Pop(f, k)    == [x \in (DOMAIN f) \ {k} |-> f[x]]

\* the kind of call a step made and how it ended
Call(op, res) == [op |-> op, result |-> res]

\* a handler invocation that has not started
Idle == [pc |-> "idle"]

\* a coroutine that runs no handler
IdleTask == [pc |-> "idle", at |-> "out", user |-> None, key |-> None,
             id |-> None, task_id |-> None, minutes |-> 0, ret |-> None,
             job |-> None, seen |-> None]

NoTrack == [key |-> None, user |-> None, tenant |-> None,
            uRes |-> 0, uAct |-> 0, tRes |-> 0, tAct |-> 0]

\* --------------------------------------------------------- period rollover
\* variant of apply_period_rollover: the month counter is not reset
apply_period_rollover_nomonth(record, d) ==
    LET r1 == IF record.day # d
              THEN [record EXCEPT !.day = d, !.minutes_today = 0,
                                  !.reserved_minutes = 0]
              ELSE record
    IN  IF r1.month # MonthOf(d)
        THEN [r1 EXCEPT !.month = MonthOf(d)]
        ELSE r1

\* UsageStore._apply_period_rollover
apply_period_rollover(record, d) ==
    LET r1 == IF record.day # d
              THEN [record EXCEPT !.day = d, !.minutes_today = 0,
                                  !.reserved_minutes = 0]
              ELSE record
    IN  IF r1.month # MonthOf(d)
        THEN [r1 EXCEPT !.month = MonthOf(d), !.minutes_month = 0]
        ELSE r1

\* UsageStore._ensure_records, for one of the two maps: create the record
\* if missing, then bring it to the current period
ensure_records(recs, id, d) ==
    Put(recs, id,
        apply_period_rollover(IF id \in DOMAIN recs THEN recs[id]
                                                    ELSE NewRecord(d), d))

\* ------------------------------------------------------------------ reserve
\* variant of ConcurrencyReason: the ceilings compared with > instead of >=
ConcurrencyReason_gt(user, tenant, lim) ==
    IF user.active_jobs > lim.concurrent_user THEN "concurrency_user"
    ELSE IF tenant.active_jobs > lim.concurrent_tenant THEN "concurrency_tenant"
    ELSE "ok"

\* reserve, lines 51-54: the two concurrency checks
ConcurrencyReason(user, tenant, lim) ==
    IF user.active_jobs >= lim.concurrent_user THEN "concurrency_user"
    ELSE IF tenant.active_jobs >= lim.concurrent_tenant THEN "concurrency_tenant"
    ELSE "ok"

\* variant of QuotaReason: the minutes already reserved are left out of the
\* totals
QuotaReason_noreserved(user, minutes, lim) ==
    LET day_limit   == lim.minutes_per_day
        month_limit == lim.minutes_per_month
        day_total   == user.minutes_today + minutes
        month_total == user.minutes_month + minutes
    IN  IF day_limit > 0 /\ day_total > day_limit THEN "quota_day"
        ELSE IF month_limit > 0 /\ month_total > month_limit
             THEN IF day_total > lim.minutes_per_day THEN "quota_day"
                  ELSE IF month_total > lim.minutes_per_month THEN "quota_month"
                  ELSE "ok"
        ELSE "ok"

\* reserve, lines 57-67: the quota checks.  The file keeps both sides of a
\* merge here: the `if month_limit > 0 and ...:` of line 61 has no body of
\* its own and is followed by the two unguarded checks of lines 63-67.  The
\* statements are taken in the order of the file with lines 63-67 as the
\* body of line 61, the one reading that keeps every token of the file and
\* under which tests/test_limits.py passes with minutes_per_month = 0.
QuotaReason(user, minutes, lim) ==
    LET day_limit   == lim.minutes_per_day
        month_limit == lim.minutes_per_month
        day_total   == user.minutes_today + user.reserved_minutes + minutes
        month_total == user.minutes_month + user.reserved_minutes + minutes
    IN  IF day_limit > 0 /\ day_total > day_limit THEN "quota_day"
        ELSE IF month_limit > 0 /\ month_total > month_limit
             THEN IF day_total > lim.minutes_per_day THEN "quota_day"
                  ELSE IF month_total > lim.minutes_per_month THEN "quota_month"
                  ELSE "ok"
        ELSE "ok"

\* the reason reserve raises, or "ok"
ReserveReason(user, tenant, minutes, lim) ==
    IF ConcurrencyReason(user, tenant, lim) # "ok"
    THEN ConcurrencyReason(user, tenant, lim)
    ELSE QuotaReason(user, minutes, lim)

\* lines 69-72: the counters of one record after a successful reserve
Reserved(record, minutes) ==
    [record EXCEPT !.reserved_minutes = @ + minutes, !.active_jobs = @ + 1]

\* UsageStore.reserve
Reserve(u, t, m, j) ==
    LET urecs  == ensure_records(user_records, u, today)
        trecs  == ensure_records(tenant_records, t, today)
        reason == ReserveReason(urecs[u], trecs[t], m, limits)
    IN  /\ IF reason # "ok"
           THEN /\ user_records' = urecs
                /\ tenant_records' = trecs
                /\ jobs' = jobs
           ELSE /\ user_records' = [urecs EXCEPT ![u] = Reserved(@, m)]
                /\ tenant_records' = [trecs EXCEPT ![t] = Reserved(@, m)]
                /\ jobs' = Put(jobs, j, UsageJob(u, t, m, j))
        /\ last' = Call("reserve", reason)
        /\ UNCHANGED <<today, limits>>

\* ------------------------------------------------------------------ confirm
\* variant of Rekeyed: the job is read with get() and stays under its old key
Rekeyed_keep(js, reservation_id, task_id) ==
    Put(js, task_id, [js[reservation_id] EXCEPT !.task_id = task_id])

\* confirm, lines 77-81: the job set after re-keying a live job
Rekeyed(js, reservation_id, task_id) ==
    Put(Pop(js, reservation_id), task_id,
        [js[reservation_id] EXCEPT !.task_id = task_id])

\* UsageStore.confirm
Confirm(reservation_id, task_id) ==
    /\ IF reservation_id \notin DOMAIN jobs
       THEN /\ jobs' = jobs
            /\ last' = Call("confirm", "reservation_missing")
       ELSE /\ jobs' = Rekeyed(jobs, reservation_id, task_id)
            /\ last' = Call("confirm", "ok")
    /\ UNCHANGED <<today, limits, user_records, tenant_records>>

\* --------------------------------------------------------- commit, rollback
\* variant of Settled: the job is read with get() and stays in the job set
Settled_keep(js, k) == js

\* lines 85 and 105: self._jobs.pop(...) takes a live job out of the job set
Settled(js, k) == Pop(js, k)

\* variant of Released: the decrements are not floored at 0
Released_nofloor(record, reserved) ==
    [record EXCEPT !.reserved_minutes = @ - reserved,
                   !.active_jobs = @ - 1]

\* lines 93-97 and 112-116: release of a reservation on one record
Released(record, reserved) ==
    [record EXCEPT !.reserved_minutes = Max(0, @ - reserved),
                   !.active_jobs = Max(0, @ - 1)]

\* lines 98-101: the actual minutes are charged to one record
Charged(record, minutes_actual) ==
    [record EXCEPT !.minutes_today = @ + minutes_actual,
                   !.minutes_month = @ + minutes_actual]

\* UsageStore.commit
Commit(task_id, minutes_actual) ==
    /\ IF task_id \notin DOMAIN jobs
       THEN /\ UNCHANGED <<user_records, tenant_records, jobs>>
            /\ last' = Call("commit", "noop")
       ELSE LET job == jobs[task_id]
                u == job.user_id
                t == job.tenant_id
                user == apply_period_rollover(user_records[u], today)
                tenant == apply_period_rollover(tenant_records[t], today)
            IN  /\ user.minutes_month + minutes_actual <= MaxUsage
                /\ tenant.minutes_month + minutes_actual <= MaxUsage
                /\ user.minutes_today + minutes_actual <= MaxUsage
                /\ tenant.minutes_today + minutes_actual <= MaxUsage
                /\ jobs' = Settled(jobs, task_id)
                /\ user_records' = [user_records EXCEPT ![u] =
                       Charged(Released(user, job.reserved_minutes),
                               minutes_actual)]
                /\ tenant_records' = [tenant_records EXCEPT ![t] =
                       Charged(Released(tenant, job.reserved_minutes),
                               minutes_actual)]
                /\ last' = Call("commit", "settled")
    /\ UNCHANGED <<today, limits>>

\* UsageStore.rollback
Rollback(job_id) ==
    /\ IF job_id \notin DOMAIN jobs
       THEN /\ UNCHANGED <<user_records, tenant_records, jobs>>
            /\ last' = Call("rollback", "noop")
       ELSE LET job == jobs[job_id]
                u == job.user_id
                t == job.tenant_id
                user == apply_period_rollover(user_records[u], today)
                tenant == apply_period_rollover(tenant_records[t], today)
            IN  /\ jobs' = Settled(jobs, job_id)
                /\ user_records' = [user_records EXCEPT ![u] =
                       Released(user, job.reserved_minutes)]
                /\ tenant_records' = [tenant_records EXCEPT ![t] =
                       Released(tenant, job.reserved_minutes)]
                /\ last' = Call("rollback", "settled")
    /\ UNCHANGED <<today, limits>>

\* ---------------------------------------------------------------- get_usage
\* variant of Snapshot: the tenant part read from the user record
Snapshot_user(user, tenant) ==
    [user |-> [minutes_today |-> user.minutes_today,
               minutes_month |-> user.minutes_month,
               reserved_minutes |-> user.reserved_minutes,
               active_jobs |-> user.active_jobs],
     tenant |-> [minutes_today |-> user.minutes_today,
                 minutes_month |-> user.minutes_month,
                 reserved_minutes |-> user.reserved_minutes,
                 active_jobs |-> user.active_jobs]]

\* get_usage, lines 123-136: the dict it returns
Snapshot(user, tenant) ==
    [user |-> [minutes_today |-> user.minutes_today,
               minutes_month |-> user.minutes_month,
               reserved_minutes |-> user.reserved_minutes,
               active_jobs |-> user.active_jobs],
     tenant |-> [minutes_today |-> tenant.minutes_today,
                 minutes_month |-> tenant.minutes_month,
                 reserved_minutes |-> tenant.reserved_minutes,
                 active_jobs |-> tenant.active_jobs]]

\* UsageStore.get_usage: only _ensure_records changes the store; the
\* returned dict is kept in last.usage
GetUsage(u, t) ==
    /\ user_records' = ensure_records(user_records, u, today)
    /\ tenant_records' = ensure_records(tenant_records, t, today)
    /\ last' = [op |-> "get_usage", result |-> "ok",
                usage |-> Snapshot(ensure_records(user_records, u, today)[u],
                                   ensure_records(tenant_records, t, today)[t])]
    /\ UNCHANGED <<today, limits, jobs>>

\* -------------------------------------------------------------------- clock
\* midnight: date.today() moves to the next day
Tick ==
    /\ today < MaxDay
    /\ today' = today + 1
    /\ last' = Call("tick", "ok")
    /\ UNCHANGED <<limits, user_records, tenant_records, jobs>>

\* ------------------------------------------------------------ specification
\* UsageStore.__init__: empty maps; the limits are the process settings
Init ==
    /\ today = 0
    /\ limits \in LimitsSet
    /\ settings = [rpm_per_user |-> MaxRpm, rpm_per_tenant |-> MaxRpm]
    /\ user_records = <<>>
    /\ tenant_records = <<>>
    /\ jobs = <<>>
    /\ last = Call("init", "ok")
    /\ track = NoTrack
    /\ confirmed = {}
    /\ now = 0
    /\ buckets = <<>>
    /\ redis = <<>>
    /\ calls = <<>>
    /\ reqs = [r \in Reqs |-> Idle]
    /\ poll = Idle
    /\ idem_cache = <<>>
    /\ store_lock = None
    /\ idem_lock = None
    /\ tasks = [c \in Reqs |-> IdleTask]

Next ==
    \/ \E u \in Users, t \in Tenants, m \in 1..MaxMinutes, j \in Ids :
          Reserve(u, t, m, j) /\ UNCHANGED aux
    \/ \E r \in Ids, k \in Ids : Confirm(r, k) /\ UNCHANGED aux
    \/ \E k \in Ids, m \in 1..MaxMinutes : Commit(k, m) /\ UNCHANGED aux
    \/ \E k \in Ids : Rollback(k) /\ UNCHANGED aux
    \/ \E u \in Users, t \in Tenants : GetUsage(u, t) /\ UNCHANGED aux
    \/ Tick /\ UNCHANGED aux

Spec == Init /\ [][Next]_vars

\* ---------------------------------------------- the store without commit
\* concurrent reserve calls with rollbacks and period rollover in between
NextReserve ==
    \/ \E u \in Users, t \in Tenants, m \in 1..MaxMinutes, j \in Ids :
          Reserve(u, t, m, j) /\ UNCHANGED aux
    \/ \E r \in Ids, k \in Ids : Confirm(r, k) /\ UNCHANGED aux
    \/ \E k \in Ids : Rollback(k) /\ UNCHANGED aux
    \/ \E u \in Users, t \in Tenants : GetUsage(u, t) /\ UNCHANGED aux
    \/ Tick /\ UNCHANGED aux

SpecReserve == Init /\ [][NextReserve]_vars

\* ------------------------------------- the store with one reservation followed
\* history: what a reserve call does to the followed reservation
TrackReserve(u, t, j, ok) ==
    IF ok /\ (track.key = None \/ track.user = u \/ track.tenant = t
              \/ track.key = j)
    THEN [key |-> j, user |-> u, tenant |-> t,
          uRes |-> IF u \in DOMAIN user_records
                   THEN user_records[u].reserved_minutes ELSE 0,
          uAct |-> IF u \in DOMAIN user_records
                   THEN user_records[u].active_jobs ELSE 0,
          tRes |-> IF t \in DOMAIN tenant_records
                   THEN tenant_records[t].reserved_minutes ELSE 0,
          tAct |-> IF t \in DOMAIN tenant_records
                   THEN tenant_records[t].active_jobs ELSE 0]
    ELSE IF track.user = u \/ track.tenant = t THEN NoTrack
    ELSE track

\* history: what a confirm call does to the followed reservation
TrackConfirm(reservation_id, task_id) ==
    IF reservation_id \notin DOMAIN jobs THEN track
    ELSE IF track.key = reservation_id THEN [track EXCEPT !.key = task_id]
    ELSE IF track.key = task_id THEN NoTrack
    ELSE track

\* history: what a settlement under key k does to the followed reservation
TrackSettle(k) ==
    IF k \notin DOMAIN jobs THEN track
    ELSE IF track.key = k \/ jobs[k].user_id = track.user
                          \/ jobs[k].tenant_id = track.tenant
         THEN NoTrack
    ELSE track

NextTrack ==
    \/ \E u \in Users, t \in Tenants, m \in 1..MaxMinutes, j \in Ids :
          /\ Reserve(u, t, m, j)
          /\ track' = TrackReserve(u, t, j, last'.result = "ok")
          /\ UNCHANGED <<confirmed, limiter, handlers>>
    \/ \E r \in Ids, k \in Ids :
          Confirm(r, k) /\ track' = TrackConfirm(r, k) /\ UNCHANGED <<confirmed, limiter, handlers>>
    \/ \E k \in Ids, m \in 1..MaxMinutes :
          Commit(k, m) /\ track' = TrackSettle(k) /\ UNCHANGED <<confirmed, limiter, handlers>>
    \/ \E k \in Ids :
          Rollback(k) /\ track' = TrackSettle(k) /\ UNCHANGED <<confirmed, limiter, handlers>>
    \/ \E u \in Users, t \in Tenants : GetUsage(u, t) /\ UNCHANGED aux
    \/ Tick /\ UNCHANGED aux

SpecTrack == Init /\ [][NextTrack]_vars

\* ------------------------------- the store with the state of each job followed
\* the per-job state machine NONE -> RESERVED -> CONFIRMED -> SETTLED is not
\* stored by the code (a UsageJob has no state field): `confirmed` records
\* which live keys hold a job that confirm has already re-keyed
NextLifecycle ==
    \/ \E u \in Users, t \in Tenants, m \in 1..MaxMinutes, j \in Ids :
          /\ Reserve(u, t, m, j)
          /\ confirmed' = IF last'.result = "ok" THEN confirmed \ {j}
                                                 ELSE confirmed
          /\ UNCHANGED <<track, limiter, handlers>>
    \/ \E r \in Ids, k \in Ids :
          /\ Confirm(r, k)
          /\ confirmed' = IF last'.result = "ok"
                          THEN (confirmed \ {r}) \cup {k} ELSE confirmed
          /\ UNCHANGED <<track, limiter, handlers>>
    \/ \E k \in Ids, m \in 1..MaxMinutes :
          Commit(k, m) /\ confirmed' = confirmed \ {k} /\ UNCHANGED <<track, limiter, handlers>>
    \/ \E k \in Ids :
          Rollback(k) /\ confirmed' = confirmed \ {k} /\ UNCHANGED <<track, limiter, handlers>>

SpecLifecycle == Init /\ [][NextLifecycle]_vars

\* ============================================================ rate limiter
\* Token counts are kept exactly, as whole numbers of 1/Den token: Den is
\* a multiple of every window, so a refill of rate / window tokens per
\* second over whole seconds is a whole number of units.
Den == LET F[n \in 0..MaxWindow] == IF n = 0 THEN 1 ELSE n * F[n - 1]
       IN  F[MaxWindow]

Min(a, b) == IF a <= b THEN a ELSE b

\* variant of Refilled: the refill is not capped at the capacity
Refilled_nocap(tokens, since, rate, window_seconds, t) ==
    tokens + ((t - since) * rate * Den) \div window_seconds

\* allow, lines 38-39 and 42: the tokens after the refill for the time
\* elapsed, at rate / window_seconds per second, capped at the capacity
Refilled(tokens, since, rate, window_seconds, t) ==
    Min(rate * Den,
        tokens + ((t - since) * rate * Den) \div window_seconds)

\* variant of Admits: a call needs more tokens than its cost
Admits_gt(tokens, cost) == tokens > cost * Den

\* allow, line 43
Admits(tokens, cost) == tokens >= cost * Den

\* variant of Deducted: an admitted call takes no token
Deducted_none(tokens, cost, allowed) == tokens

\* allow, lines 44-45
Deducted(tokens, cost, allowed) ==
    IF allowed THEN tokens - cost * Den ELSE tokens

\* InMemoryTokenBucket.allow on the bucket map bs at time t: the decision
\* and the map it leaves
InMemoryAllow(bs, key, rate, cost, window_seconds, t) ==
    LET entry == IF key \in DOMAIN bs THEN bs[key]
                 ELSE [tokens |-> rate * Den, last |-> t]
        tokens == Refilled(entry.tokens, entry.last, rate, window_seconds, t)
        allowed == Admits(tokens, cost)
    IN  [allowed |-> allowed,
         buckets |-> Put(bs, key, [tokens |-> Deducted(tokens, cost, allowed),
                                   last |-> t])]

\* a hash is gone once the time to live set by EXPIRE has elapsed
Expired(rs, key, t) == key \in DOMAIN rs => t >= rs[key].expires

\* REDIS_SCRIPT run on the hashes rs at time t: the reply and the hashes it
\* leaves. HMGET of an expired or missing hash yields nil.
RedisScript(rs, key, t, rate, window, cost) ==
    LET capacity == rate * Den
        tokens == IF Expired(rs, key, t) THEN capacity
                  ELSE Min(capacity,
                           rs[key].tokens
                             + ((t - rs[key].timestamp) * rate * Den)
                                  \div window)
        allowed == IF tokens >= cost * Den THEN 1 ELSE 0
    IN  [allowed |-> allowed,
         redis |-> Put(rs, key,
                       [tokens |-> IF allowed = 1 THEN tokens - cost * Den
                                                  ELSE tokens,
                        timestamp |-> t, expires |-> t + window])]

\* RedisTokenBucket.allow
RedisAllow(rs, key, rate, cost, window_seconds, t) ==
    LET result == RedisScript(rs, key, t, rate, window_seconds, cost)
    IN  [allowed |-> result.allowed # 0, redis |-> result.redis]

\* history: a scope no burst is counted for any more
Closed(rate) == [n |-> 0, admitted |-> 0, rate |-> rate, at |-> 0,
                 open |-> FALSE]

\* history: the calls with cost 1 and one rate made on a scope from its
\* first call on while the clock stands still, and how many were admitted;
\* rate stays that of the first call once the burst is over
Counted(key, rate, cost, allowed) ==
    IF key \notin DOMAIN calls
    THEN IF cost = 1
         THEN [n |-> 1, admitted |-> IF allowed THEN 1 ELSE 0,
               rate |-> rate, at |-> now, open |-> TRUE]
         ELSE Closed(rate)
    ELSE IF /\ calls[key].open /\ cost = 1 /\ rate = calls[key].rate
            /\ now = calls[key].at /\ calls[key].n < MaxCalls
         THEN [calls[key] EXCEPT !.n = @ + 1,
                                 !.admitted = IF allowed THEN @ + 1 ELSE @]
         ELSE Closed(calls[key].rate)

\* one allow(key, rate, cost, window_seconds) call, presented to an
\* InMemoryTokenBucket and to a RedisTokenBucket at the same time. Neither
\* call can be interleaved with another: the asyncio lock is never held
\* across an await, and Redis runs a script as one command.
Allow(key, rate, cost, window_seconds) ==
    LET mem == InMemoryAllow(buckets, key, rate, cost, window_seconds, now)
        shared == RedisAllow(redis, key, rate, cost, window_seconds, now)
    IN  /\ buckets' = mem.buckets
        /\ redis' = shared.redis
        /\ calls' = Put(calls, key, Counted(key, rate, cost, mem.allowed))
        /\ last' = [op |-> "allow", result |-> "ok", key |-> key,
                    rate |-> rate, cost |-> cost, allowed |-> mem.allowed,
                    redis_allowed |-> shared.allowed]
        /\ UNCHANGED <<now, store, handlers>>

\* the monotonic clock advances by a second
Elapse ==
    /\ now < MaxTime
    /\ now' = now + 1
    /\ last' = Call("elapse", "ok")
    /\ UNCHANGED <<buckets, redis, calls, store, handlers>>

\* the limiter reads none of the quota settings: one value of them does
InitLimiter ==
    /\ Init
    /\ limits = [concurrent_user |-> 1, concurrent_tenant |-> 1,
                 minutes_per_day |-> 0, minutes_per_month |-> 0]

NextLimiter ==
    \/ \E key \in Keys, rate \in 1..MaxRate, cost \in 0..MaxCost,
          window_seconds \in 1..MaxWindow :
          Allow(key, rate, cost, window_seconds)
    \/ Elapse

SpecLimiter == InitLimiter /\ [][NextLimiter]_vars

\* ================================================================ handlers
\* The handlers of main.py run as asyncio tasks: one task runs without
\* interruption until it awaits something that is not ready.  Both locks
\* are free whenever a task reaches them (no task awaits anything not ready
\* while it holds one), and the in-memory limiter does not wait, so the
\* tasks are interrupted only at `await file.read()` and at the HTTP call
\* to the backend.  There is one action for each stretch between these
\* points.

\* the maps of the usage store as one value
StoreNow == [user_records |-> user_records, tenant_records |-> tenant_records,
             jobs |-> jobs]

SetStore(st) ==
    /\ user_records' = st.user_records
    /\ tenant_records' = st.tenant_records
    /\ jobs' = st.jobs

\* variant of reserve: a granted reservation is counted but no job is kept
reserve_nojob(st, u, t, m, j) ==
    LET urecs  == ensure_records(st.user_records, u, today)
        trecs  == ensure_records(st.tenant_records, t, today)
        reason == ReserveReason(urecs[u], trecs[t], m, limits)
    IN  [reason |-> reason,
         st |-> IF reason # "ok"
                THEN [user_records |-> urecs, tenant_records |-> trecs,
                      jobs |-> st.jobs]
                ELSE [user_records |-> [urecs EXCEPT ![u] = Reserved(@, m)],
                      tenant_records |-> [trecs EXCEPT ![t] = Reserved(@, m)],
                      jobs |-> st.jobs]]

\* UsageStore.reserve as the handlers use it: the reason ("ok" when nothing
\* is raised) and the store it leaves
reserve(st, u, t, m, j) ==
    LET urecs  == ensure_records(st.user_records, u, today)
        trecs  == ensure_records(st.tenant_records, t, today)
        reason == ReserveReason(urecs[u], trecs[t], m, limits)
    IN  [reason |-> reason,
         st |-> IF reason # "ok"
                THEN [user_records |-> urecs, tenant_records |-> trecs,
                      jobs |-> st.jobs]
                ELSE [user_records |-> [urecs EXCEPT ![u] = Reserved(@, m)],
                      tenant_records |-> [trecs EXCEPT ![t] = Reserved(@, m)],
                      jobs |-> Put(st.jobs, j, UsageJob(u, t, m, j))]]

\* UsageStore.confirm: whether it returns normally, and the store it leaves
confirm(st, reservation_id, task_id) ==
    IF reservation_id \notin DOMAIN st.jobs
    THEN [ok |-> FALSE, st |-> st]
    ELSE [ok |-> TRUE,
          st |-> [st EXCEPT !.jobs = Rekeyed(@, reservation_id, task_id)]]

\* UsageStore.commit: the store it leaves
commit(st, task_id, minutes_actual) ==
    IF task_id \notin DOMAIN st.jobs THEN st
    ELSE LET job == st.jobs[task_id]
             user == apply_period_rollover(st.user_records[job.user_id],
                                           today)
             tenant == apply_period_rollover(
                           st.tenant_records[job.tenant_id], today)
         IN  [user_records |-> [st.user_records EXCEPT ![job.user_id] =
                  Charged(Released(user, job.reserved_minutes),
                          minutes_actual)],
              tenant_records |-> [st.tenant_records EXCEPT ![job.tenant_id] =
                  Charged(Released(tenant, job.reserved_minutes),
                          minutes_actual)],
              jobs |-> Settled(st.jobs, task_id)]

\* the counters stay within the range the model follows
CommitFits(st, task_id, minutes_actual) ==
    task_id \in DOMAIN st.jobs =>
        LET after == commit(st, task_id, minutes_actual)
            job == st.jobs[task_id]
        IN  /\ after.user_records[job.user_id].minutes_today <= MaxUsage
            /\ after.user_records[job.user_id].minutes_month <= MaxUsage
            /\ after.tenant_records[job.tenant_id].minutes_today <= MaxUsage
            /\ after.tenant_records[job.tenant_id].minutes_month <= MaxUsage

\* UsageStore.rollback: the store it leaves
rollback(st, job_id) ==
    IF job_id \notin DOMAIN st.jobs THEN st
    ELSE LET job == st.jobs[job_id]
             user == apply_period_rollover(st.user_records[job.user_id],
                                           today)
             tenant == apply_period_rollover(
                           st.tenant_records[job.tenant_id], today)
         IN  [user_records |-> [st.user_records EXCEPT ![job.user_id] =
                  Released(user, job.reserved_minutes)],
              tenant_records |-> [st.tenant_records EXCEPT ![job.tenant_id] =
                  Released(tenant, job.reserved_minutes)],
              jobs |-> Settled(st.jobs, job_id)]

\* UsageStore.get_usage: the store it leaves
get_usage(st, u, t) ==
    [st EXCEPT !.user_records = ensure_records(@, u, today),
               !.tenant_records = ensure_records(@, t, today)]

\* _tenant_id: the tenant named by the token
TenantOf(u) == CHOOSE t \in Tenants : TRUE

UserKey(u) == "user:" \o u
TenantKey(t) == "tenant:" \o t

\* RateLimiter.hit on the in-memory backend: cost 1, the default window
hit(bs, scope, rate) == InMemoryAllow(bs, scope, rate, 1, DefaultWindow, now)

\* _enforce_limits: the detail of the HTTPException it raises, or "ok", and
\* the buckets it leaves
enforce_limits(bs, u, t) ==
    LET allowed_user == hit(bs, UserKey(u), settings.rpm_per_user)
        allowed_tenant == hit(allowed_user.buckets, TenantKey(t),
                              settings.rpm_per_tenant)
    IN  IF ~allowed_user.allowed
        THEN [detail |-> "rate_limited_user", buckets |-> allowed_user.buckets]
        ELSE IF ~allowed_tenant.allowed
        THEN [detail |-> "rate_limited_tenant",
              buckets |-> allowed_tenant.buckets]
        ELSE [detail |-> "ok", buckets |-> allowed_tenant.buckets]

\* the response a handler invocation ends with
Reply(op, status, detail) ==
    [op |-> op, result |-> "ok", status |-> status, detail |-> detail]

\* what ends a request before the rate limiter is asked
EarlyRejects == {"missing_token", "diarization_not_allowed"}

EarlyStatus(detail) == IF detail = "missing_token" THEN 401 ELSE 400

\* what the handler steps leave alone besides what each one names
HandlerFrame ==
    UNCHANGED <<today, limits, settings, track, confirmed, now, redis, calls,
                store_lock, idem_lock, tasks>>

\* transcribe, lines 177-186: token, diarization switch, rate limiter, then
\* the upload is awaited.  An invocation is named by the uuid4 it will
\* reserve under, which no live job carries.
TranscribeAdmit(r, u, key, early) ==
    /\ reqs[r].pc = "idle"
    /\ r \notin DOMAIN jobs
    /\ IF early \in EarlyRejects
       THEN /\ reqs' = [reqs EXCEPT ![r] = Idle]
            /\ last' = Reply("transcribe", EarlyStatus(early), early)
            /\ UNCHANGED buckets
       ELSE LET checked == enforce_limits(buckets, u, TenantOf(u))
            IN  /\ buckets' = checked.buckets
                /\ IF checked.detail # "ok"
                   THEN /\ reqs' = [reqs EXCEPT ![r] =
                                       Idle]
                        /\ last' = Reply("transcribe", 429, checked.detail)
                   ELSE /\ reqs' = [reqs EXCEPT ![r] =
                               [pc |-> "read", user |-> u, key |-> key]]
                        /\ last' = Call("admit", "ok")
    /\ UNCHANGED <<user_records, tenant_records, jobs, poll, idem_cache>>
    /\ HandlerFrame

DenialStatus_all429(reason) == 429

\* transcribe, lines 206-210: the status of a reserve denial
DenialStatus(reason) ==
    IF reason \in {"concurrency_user", "concurrency_tenant"} THEN 409 ELSE 429

\* transcribe, lines 212-216: the payload cached for the request, if any
Cached(cache, u, key) ==
    IF key # None /\ <<u, key>> \in DOMAIN cache THEN cache[<<u, key>>]
    ELSE None

\* transcribe, lines 187-235: size checks, reserve, replay of a cached
\* payload, then the call to the backend is awaited
TranscribeReserve(r, size, estimated_minutes) ==
    /\ reqs[r].pc = "read"
    /\ LET u == reqs[r].user
           key == reqs[r].key
           reserved == reserve(StoreNow, u, TenantOf(u), estimated_minutes, r)
           cached == Cached(idem_cache, u, key)
       IN  IF size # "ok"
           THEN /\ reqs' = [reqs EXCEPT ![r] = Idle]
                /\ last' = Reply("transcribe", IF size = "file_too_large" THEN 413 ELSE 400,
                                 size)
                /\ UNCHANGED <<user_records, tenant_records, jobs>>
           ELSE IF reserved.reason # "ok"
           THEN /\ SetStore(reserved.st)
                /\ reqs' = [reqs EXCEPT ![r] = Idle]
                /\ last' = Reply("transcribe", DenialStatus(reserved.reason), reserved.reason)
           ELSE IF cached # None
           THEN /\ SetStore(rollback(reserved.st, r))
                /\ reqs' = [reqs EXCEPT ![r] = Idle]
                /\ last' = Reply("transcribe", 200, cached)
           ELSE /\ SetStore(reserved.st)
                /\ reqs' = [reqs EXCEPT ![r] =
                               [pc |-> "posted", user |-> u, key |-> key]]
                /\ last' = Call("dispatch", "ok")
    /\ UNCHANGED <<buckets, poll, idem_cache>>
    /\ HandlerFrame

\* what the awaited POST /transcribe can come back with, besides a payload
\* with a task id: an error status, a transport error, any other exception
\* (the stub client's RuntimeError, a body that is no JSON), a payload
\* without task id
PostFailures == {"status_error", "http_error", "exception", "no_task_id"}

\* transcribe, lines 236-254: the backend's answer is handled
TranscribeSettle(r, answer) ==
    /\ reqs[r].pc = "posted"
    /\ LET u == reqs[r].user
           key == reqs[r].key
           confirmed_job == confirm(StoreNow, r, answer)
       IN  IF answer = "status_error"
           THEN /\ SetStore(rollback(StoreNow, r))
                /\ reqs' = [reqs EXCEPT ![r] = Idle]
                /\ last' = Reply("transcribe", 500, "whisper_error")
                /\ UNCHANGED idem_cache
           ELSE IF answer = "http_error"
           THEN /\ SetStore(rollback(StoreNow, r))
                /\ reqs' = [reqs EXCEPT ![r] = Idle]
                /\ last' = Reply("transcribe", 502, "whisper_unreachable")
                /\ UNCHANGED idem_cache
           ELSE IF answer = "exception"
           THEN /\ reqs' = [reqs EXCEPT ![r] = Idle]
                /\ last' = Reply("transcribe", 500, "unhandled")
                /\ UNCHANGED <<user_records, tenant_records, jobs, idem_cache>>
           ELSE IF answer = "no_task_id"
           THEN /\ SetStore(rollback(StoreNow, r))
                /\ reqs' = [reqs EXCEPT ![r] = Idle]
                /\ last' = Reply("transcribe", 502, "missing_task_id")
                /\ UNCHANGED idem_cache
           ELSE IF ~confirmed_job.ok
           THEN /\ reqs' = [reqs EXCEPT ![r] = Idle]
                /\ last' = Reply("transcribe", 500, "unhandled")
                /\ UNCHANGED <<user_records, tenant_records, jobs, idem_cache>>
           ELSE /\ SetStore(confirmed_job.st)
                /\ idem_cache' = IF key # None
                                 THEN Put(idem_cache, <<u, key>>, answer)
                                 ELSE idem_cache
                /\ reqs' = [reqs EXCEPT ![r] = Idle]
                /\ last' = Reply("transcribe", 200, answer)
    /\ UNCHANGED <<buckets, poll>>
    /\ HandlerFrame

\* status, lines 264-271: token, rate limiter, then the call to the backend
\* is awaited
StatusAdmit(u, task_id, early) ==
    /\ poll.pc = "idle"
    /\ IF early = "missing_token"
       THEN /\ last' = Reply("status", 401, early)
            /\ UNCHANGED <<buckets, poll>>
       ELSE LET checked == enforce_limits(buckets, u, TenantOf(u))
            IN  /\ buckets' = checked.buckets
                /\ IF checked.detail # "ok"
                   THEN /\ last' = Reply("status", 429, checked.detail)
                        /\ UNCHANGED poll
                   ELSE /\ poll' = [pc |-> "waiting", task_id |-> task_id]
                        /\ last' = Call("ask", "ok")
    /\ UNCHANGED <<user_records, tenant_records, jobs, reqs, idem_cache>>
    /\ HandlerFrame

\* the durations in seconds a completed task is reported with (0: none)
Durations == {0, 60, 61}

MinutesActual_floor(duration) ==
    IF duration > 0
    THEN Max(1, duration \div 60)
    ELSE 1

\* status, lines 279-283
MinutesActual(duration) ==
    IF duration > 0
    THEN Max(1, (duration + 59) \div 60)
    ELSE 1

\* what the awaited GET /status/{task_id} can come back with
StatusAnswers ==
    {"completed", "failed", "cancelled", "processing", "status_error",
     "exception"}

\* status, lines 272-287: the backend's answer is handled
StatusSettle(answer, duration) ==
    /\ poll.pc = "waiting"
    /\ LET task_id == poll.task_id
       IN  IF answer = "completed"
           THEN /\ CommitFits(StoreNow, task_id, MinutesActual(duration))
                /\ SetStore(commit(StoreNow, task_id, MinutesActual(duration)))
                /\ last' = Reply("status", 200, answer)
           ELSE IF answer \in {"failed", "cancelled"}
           THEN /\ SetStore(rollback(StoreNow, task_id))
                /\ last' = Reply("status", 200, answer)
           ELSE /\ UNCHANGED <<user_records, tenant_records, jobs>>
                /\ last' = Reply("status", IF answer = "processing" THEN 200 ELSE 500,
                                 IF answer = "processing" THEN answer
                                 ELSE IF answer = "status_error"
                                 THEN "whisper_error" ELSE "unhandled")
    /\ poll' = Idle
    /\ UNCHANGED <<buckets, reqs, idem_cache>>
    /\ HandlerFrame

\* me_usage: nothing is awaited that is not ready
MeUsage(u) ==
    /\ SetStore(get_usage(StoreNow, u, TenantOf(u)))
    /\ last' = [op |-> "me_usage", result |-> "ok", status |-> 200,
                detail |->
                  [minutes_today |->
                     get_usage(StoreNow, u, TenantOf(u))
                         .user_records[u].minutes_today,
                   minutes_month |->
                     get_usage(StoreNow, u, TenantOf(u))
                         .user_records[u].minutes_month]]
    /\ UNCHANGED <<buckets, reqs, poll, idem_cache>>
    /\ HandlerFrame

\* the limits under which a second job is refused
Strict == [concurrent_user |-> 1, concurrent_tenant |-> 1,
           minutes_per_day |-> MaxLimit, minutes_per_month |-> MaxLimit]

\* the limits under which two jobs are admitted, without quota
Loose == [concurrent_user |-> MaxConc, concurrent_tenant |-> MaxConc,
          minutes_per_day |-> 0, minutes_per_month |-> 0]

\* the process before its first request, under the given settings
InitWith(lims, rpm) ==
    /\ today = 0
    /\ limits \in lims
    /\ settings = [rpm_per_user |-> rpm, rpm_per_tenant |-> rpm]
    /\ user_records = <<>>
    /\ tenant_records = <<>>
    /\ jobs = <<>>
    /\ last = Call("init", "ok")
    /\ track = NoTrack
    /\ confirmed = {}
    /\ now = 0
    /\ buckets = <<>>
    /\ redis = <<>>
    /\ calls = <<>>
    /\ reqs = [r \in Reqs |-> Idle]
    /\ poll = Idle
    /\ idem_cache = <<>>
    /\ store_lock = None
    /\ idem_lock = None
    /\ tasks = [c \in Reqs |-> IdleTask]

\* midnight comes once in a run of the handlers
Midnight == today = 0 /\ Tick

\* one transcribe invocation at a time, status polls and usage queries.
\* The requests of a run arrive within one second: no token is refilled.
InitHandlers == InitWith({Strict, Loose}, MaxRpm - 1)

NextHandlers ==
    \/ \E u \in Users, key \in IdemKeys \cup {None},
          early \in EarlyRejects \cup {"ok"} :
          TranscribeAdmit("r1", u, key, early)
    \/ \E size \in {"ok", "file_too_large", "clip_too_long"},
          estimated_minutes \in 1..MaxMinutes :
          TranscribeReserve("r1", size, estimated_minutes)
    \/ \E answer \in PostFailures \cup Ids : TranscribeSettle("r1", answer)
    \/ \E u \in Users, task_id \in Ids, early \in {"ok", "missing_token"} :
          StatusAdmit(u, task_id, early)
    \/ \E answer \in StatusAnswers, duration \in Durations :
          StatusSettle(answer, duration)
    \/ \E u \in Users : MeUsage(u)
    \/ Midnight /\ UNCHANGED aux

SpecHandlers == InitHandlers /\ [][NextHandlers]_vars

\* a longer run under the strict limits, of requests without
\* Idempotency-Key
InitStatus == InitWith({Strict}, MaxRpm)

NextStatus ==
    \/ \E u \in Users, early \in EarlyRejects \cup {"ok"} :
          TranscribeAdmit("r1", u, None, early)
    \/ \E size \in {"ok", "file_too_large", "clip_too_long"},
          estimated_minutes \in 1..MaxMinutes :
          TranscribeReserve("r1", size, estimated_minutes)
    \/ \E answer \in PostFailures \cup Ids : TranscribeSettle("r1", answer)
    \/ \E u \in Users, task_id \in Ids, early \in {"ok", "missing_token"} :
          StatusAdmit(u, task_id, early)
    \/ \E answer \in StatusAnswers, duration \in Durations :
          StatusSettle(answer, duration)
    \/ Midnight /\ UNCHANGED aux

SpecStatus == InitStatus /\ [][NextStatus]_vars

\* transcribe invocations side by side
InitRace == InitWith({Strict, Loose}, MaxRpm - 1)

NextRace ==
    \/ \E r \in Reqs, u \in Users, key \in IdemKeys \cup {None},
          early \in EarlyRejects \cup {"ok"} :
          TranscribeAdmit(r, u, key, early)
    \/ \E r \in Reqs, size \in {"ok", "file_too_large", "clip_too_long"},
          estimated_minutes \in 1..MaxMinutes :
          TranscribeReserve(r, size, estimated_minutes)
    \/ \E r \in Reqs, answer \in PostFailures \cup Ids :
          TranscribeSettle(r, answer)

SpecRace == InitRace /\ [][NextRace]_vars

\* =================================================================== locks
\* The handlers and the store followed statement by statement, each
\* coroutine free to be overtaken between any two statements: every
\* interleaving the event loop can produce is among these.  A coroutine is
\* named by the uuid4 its transcribe reserves under.

\* the handler positions at which rollback is running
Rollbacks == {"replay_rollback", "fail_rollback", "status_rollback"}

\* what the lock steps leave alone besides what each one names
LockFrame ==
    UNCHANGED <<today, limits, settings, track, confirmed, limiter, reqs, poll>>

\* the coroutine c moves on to the record `task`
Moves(c, task) ==
    /\ tasks' = [tasks EXCEPT ![c] = task]
    /\ last' = Call("step", "ok")

\* transcribe up to the call of reserve, lines 177-205
StartTranscribe(c, u, key, estimated_minutes) ==
    /\ tasks[c].pc = "idle"
    /\ c \notin DOMAIN jobs
    /\ Moves(c, [IdleTask EXCEPT !.pc = "reserve", !.at = "acquire",
                                 !.user = u, !.key = key, !.id = c,
                                 !.minutes = estimated_minutes])
    /\ UNCHANGED <<user_records, tenant_records, jobs, idem_cache,
                   store_lock, idem_lock>>
    /\ LockFrame

\* status up to the awaited GET, lines 264-271
StartStatus(c, task_id) ==
    /\ tasks[c].pc = "idle"
    /\ Moves(c, [IdleTask EXCEPT !.pc = "get", !.id = task_id])
    /\ UNCHANGED <<user_records, tenant_records, jobs, idem_cache,
                   store_lock, idem_lock>>
    /\ LockFrame

\* me_usage up to the call of get_usage, lines 294-297
StartUsage(c, u) ==
    /\ tasks[c].pc = "idle"
    /\ Moves(c, [IdleTask EXCEPT !.pc = "get_usage", !.at = "acquire",
                                 !.user = u])
    /\ UNCHANGED <<user_records, tenant_records, jobs, idem_cache,
                   store_lock, idem_lock>>
    /\ LockFrame

\* variant of Acquire: the lock is taken whether or not it is free
Acquire_nolock(c) ==
    /\ tasks[c].at = "acquire"
    /\ store_lock' = c
    /\ Moves(c, [tasks[c] EXCEPT !.at = "b1", !.seen = StoreNow])
    /\ UNCHANGED <<user_records, tenant_records, jobs, idem_cache, idem_lock>>
    /\ LockFrame

\* `async with self._lock:` entered: the coroutine goes on once the lock is
\* free.  seen: history, the store as the method finds it
Acquire(c) ==
    /\ tasks[c].at = "acquire"
    /\ store_lock = None
    /\ store_lock' = c
    /\ Moves(c, [tasks[c] EXCEPT !.at = "b1", !.seen = StoreNow])
    /\ UNCHANGED <<user_records, tenant_records, jobs, idem_cache, idem_lock>>
    /\ LockFrame

\* reserve, lines 46-72, in three stretches: records ensured and limits
\* checked; the user's counters; the tenant's counters and the job
ReserveStep(c) ==
    LET task == tasks[c]
        u == task.user
        t == TenantOf(u)
        urecs == ensure_records(user_records, u, today)
        trecs == ensure_records(tenant_records, t, today)
        reason == ReserveReason(urecs[u], trecs[t], task.minutes, limits)
    IN  /\ task.pc = "reserve"
        /\ \/ /\ task.at = "b1"
              /\ user_records' = urecs
              /\ tenant_records' = trecs
              /\ UNCHANGED jobs
              /\ Moves(c, [task EXCEPT !.ret = reason,
                              !.at = IF reason = "ok" THEN "b2" ELSE "release"])
           \/ /\ task.at = "b2"
              /\ user_records' = [user_records EXCEPT ![u] =
                                     Reserved(@, task.minutes)]
              /\ UNCHANGED <<tenant_records, jobs>>
              /\ Moves(c, [task EXCEPT !.at = "b3"])
           \/ /\ task.at = "b3"
              /\ tenant_records' = [tenant_records EXCEPT ![t] =
                                       Reserved(@, task.minutes)]
              /\ jobs' = Put(jobs, task.id, UsageJob(u, t, task.minutes, task.id))
              /\ UNCHANGED user_records
              /\ Moves(c, [task EXCEPT !.at = "release"])

\* confirm, lines 77-81, in two stretches: the job popped; the job put back
\* under the task id
ConfirmStep(c) ==
    LET task == tasks[c]
    IN  /\ task.pc = "confirm"
        /\ \/ /\ task.at = "b1"
              /\ IF task.id \notin DOMAIN jobs
                 THEN /\ UNCHANGED jobs
                      /\ Moves(c, [task EXCEPT !.ret = "reservation_missing",
                                               !.at = "release"])
                 ELSE /\ jobs' = Pop(jobs, task.id)
                      /\ Moves(c, [task EXCEPT !.job = jobs[task.id],
                                               !.at = "b2"])
           \/ /\ task.at = "b2"
              /\ jobs' = Put(jobs, task.task_id,
                             [task.job EXCEPT !.task_id = task.task_id])
              /\ Moves(c, [task EXCEPT !.ret = "ok", !.at = "release"])
        /\ UNCHANGED <<user_records, tenant_records>>

\* the counters of a record after the settlement the coroutine is making
SettledBy(task, record) ==
    LET released == Released(apply_period_rollover(record, today),
                             task.job.reserved_minutes)
    IN  IF task.pc = "commit" THEN Charged(released, task.minutes)
        ELSE released

\* commit, lines 85-101, and rollback, lines 105-116, in three stretches:
\* the job popped; the user's counters; the tenant's counters
SettleStep(c) ==
    LET task == tasks[c]
    IN  /\ task.pc \in Rollbacks \cup {"commit"}
        /\ \/ /\ task.at = "b1"
              /\ IF task.id \notin DOMAIN jobs
                 THEN /\ UNCHANGED jobs
                      /\ Moves(c, [task EXCEPT !.ret = "noop",
                                               !.at = "release"])
                 ELSE /\ jobs' = Settled(jobs, task.id)
                      /\ Moves(c, [task EXCEPT !.job = jobs[task.id],
                                               !.at = "b2"])
              /\ UNCHANGED <<user_records, tenant_records>>
           \/ /\ task.at = "b2"
              /\ user_records' = [user_records EXCEPT ![task.job.user_id] =
                                     SettledBy(task, @)]
              /\ UNCHANGED <<tenant_records, jobs>>
              /\ Moves(c, [task EXCEPT !.at = "b3"])
           \/ /\ task.at = "b3"
              /\ tenant_records' = [tenant_records EXCEPT
                                       ![task.job.tenant_id] = SettledBy(task, @)]
              /\ UNCHANGED <<user_records, jobs>>
              /\ Moves(c, [task EXCEPT !.ret = "ok", !.at = "release"])

\* get_usage, lines 119-136, in two stretches: records ensured; counters
\* read
UsageStep(c) ==
    LET task == tasks[c]
        u == task.user
        t == TenantOf(u)
    IN  /\ task.pc = "get_usage"
        /\ \/ /\ task.at = "b1"
              /\ user_records' = ensure_records(user_records, u, today)
              /\ tenant_records' = ensure_records(tenant_records, t, today)
              /\ Moves(c, [task EXCEPT !.at = "b2"])
           \/ /\ task.at = "b2"
              /\ UNCHANGED <<user_records, tenant_records>>
              /\ Moves(c, [task EXCEPT
                              !.ret = Snapshot(user_records[u], tenant_records[t]),
                              !.at = "release"])
        /\ UNCHANGED jobs

\* a statement of the store method the coroutine is in
StoreStep(c) ==
    /\ ReserveStep(c) \/ ConfirmStep(c) \/ SettleStep(c) \/ UsageStep(c)
    /\ UNCHANGED <<idem_cache, store_lock, idem_lock>>
    /\ LockFrame

\* where the handler stands when the store method has returned or raised
AfterCall(task) ==
    IF task.pc = "reserve" /\ task.ret = "ok"
        THEN [task EXCEPT !.pc = IF task.key # None THEN "idem1_acquire"
                                 ELSE "post",
                          !.at = "out", !.seen = None, !.ret = None]
        ELSE IF task.pc = "replay_rollback"
        THEN [task EXCEPT !.pc = "replay_release", !.at = "out",
                          !.seen = None, !.ret = None, !.job = None]
        ELSE IF task.pc = "confirm" /\ task.ret = "ok" /\ task.key # None
        THEN [task EXCEPT !.pc = "idem2_acquire", !.at = "out",
                          !.seen = None, !.ret = None, !.job = None]
        ELSE IdleTask

\* `async with self._lock:` left, by return or by exception
Release(c) ==
    /\ tasks[c].at = "release"
    /\ store_lock' = None
    /\ Moves(c, AfterCall(tasks[c]))
    /\ UNCHANGED <<user_records, tenant_records, jobs, idem_cache, idem_lock>>
    /\ LockFrame

\* `async with _idem_lock:` entered, lines 214 and 252
IdemAcquire(c) ==
    /\ tasks[c].pc \in {"idem1_acquire", "idem2_acquire"}
    /\ idem_lock = None
    /\ idem_lock' = c
    /\ Moves(c, [tasks[c] EXCEPT !.pc = IF @ = "idem1_acquire" THEN "lookup"
                                        ELSE "store_payload"])
    /\ UNCHANGED <<user_records, tenant_records, jobs, idem_cache, store_lock>>
    /\ LockFrame

\* lines 215-217: the cache is read; a hit goes on to rollback
Lookup(c) ==
    /\ tasks[c].pc = "lookup"
    /\ Moves(c, IF Cached(idem_cache, tasks[c].user, tasks[c].key) # None
                THEN [tasks[c] EXCEPT !.pc = "replay_rollback",
                                      !.at = "acquire"]
                ELSE [tasks[c] EXCEPT !.pc = "miss_release"])
    /\ UNCHANGED <<user_records, tenant_records, jobs, idem_cache,
                   store_lock, idem_lock>>
    /\ LockFrame

\* line 253: the payload is cached
StorePayload(c) ==
    /\ tasks[c].pc = "store_payload"
    /\ idem_cache' = Put(idem_cache, <<tasks[c].user, tasks[c].key>>,
                         tasks[c].task_id)
    /\ Moves(c, [tasks[c] EXCEPT !.pc = "stored_release"])
    /\ UNCHANGED <<user_records, tenant_records, jobs, store_lock, idem_lock>>
    /\ LockFrame

\* variant of IdemRelease: the handler goes on and the lock stays taken
IdemRelease_held(c) ==
    /\ tasks[c].pc \in {"replay_release", "miss_release", "stored_release"}
    /\ Moves(c, IF tasks[c].pc = "miss_release"
                THEN [tasks[c] EXCEPT !.pc = "post"]
                ELSE IdleTask)
    /\ UNCHANGED <<user_records, tenant_records, jobs, idem_cache,
                   store_lock, idem_lock>>
    /\ LockFrame

\* `async with _idem_lock:` left: after a miss the handler goes on to the
\* dispatch, after a replay and after the store of the payload it returns
IdemRelease(c) ==
    /\ tasks[c].pc \in {"replay_release", "miss_release", "stored_release"}
    /\ idem_lock' = None
    /\ Moves(c, IF tasks[c].pc = "miss_release"
                THEN [tasks[c] EXCEPT !.pc = "post"]
                ELSE IdleTask)
    /\ UNCHANGED <<user_records, tenant_records, jobs, idem_cache, store_lock>>
    /\ LockFrame

\* lines 235-249: the backend's answer to the dispatch is handled up to the
\* call of rollback or confirm
Post(c, answer) ==
    /\ tasks[c].pc = "post"
    /\ Moves(c, IF answer \in {"status_error", "http_error", "no_task_id"}
                THEN [tasks[c] EXCEPT !.pc = "fail_rollback",
                                      !.at = "acquire"]
                ELSE IF answer = "exception" THEN IdleTask
                ELSE [tasks[c] EXCEPT !.pc = "confirm", !.at = "acquire",
                                      !.task_id = answer])
    /\ UNCHANGED <<user_records, tenant_records, jobs, idem_cache,
                   store_lock, idem_lock>>
    /\ LockFrame

\* lines 271-286: the backend's answer to the poll is handled up to the call
\* of commit or rollback
Get(c, answer, duration) ==
    /\ tasks[c].pc = "get"
    /\ answer = "completed"
          => CommitFits(StoreNow, tasks[c].id, MinutesActual(duration))
    /\ Moves(c, IF answer = "completed"
                THEN [tasks[c] EXCEPT !.pc = "commit", !.at = "acquire",
                                      !.minutes = MinutesActual(duration)]
                ELSE IF answer \in {"failed", "cancelled"}
                THEN [tasks[c] EXCEPT !.pc = "status_rollback",
                                      !.at = "acquire"]
                ELSE IdleTask)
    /\ UNCHANGED <<user_records, tenant_records, jobs, idem_cache,
                   store_lock, idem_lock>>
    /\ LockFrame

\* two coroutines of one user, under the strict limits
InitLocks == InitWith({Strict}, MaxRpm)

NextLocks ==
    \/ \E c \in Reqs, key \in IdemKeys \cup {None} :
          StartTranscribe(c, "u1", key, 1)
    \/ \E c \in Reqs, task_id \in Ids : StartStatus(c, task_id)
    \/ \E c \in Reqs : StartUsage(c, "u1")
    \/ \E c \in Reqs : Acquire(c)
    \/ \E c \in Reqs : StoreStep(c)
    \/ \E c \in Reqs : Release(c)
    \/ \E c \in Reqs : IdemAcquire(c)
    \/ \E c \in Reqs : Lookup(c)
    \/ \E c \in Reqs : StorePayload(c)
    \/ \E c \in Reqs : IdemRelease(c)
    \/ \E c \in Reqs, answer \in PostFailures \cup Ids : Post(c, answer)
    \/ \E c \in Reqs, answer \in StatusAnswers : Get(c, answer, 60)

SpecLocks == InitLocks /\ [][NextLocks]_vars

\* the event loop runs every coroutine that can go on, and both locks wake
\* their waiters in the order they came
FairLocks ==
    \A c \in Reqs :
        /\ WF_vars(StoreStep(c))
        /\ WF_vars(Release(c))
        /\ WF_vars(Lookup(c))
        /\ WF_vars(StorePayload(c))
        /\ WF_vars(IdemRelease(c))
        /\ SF_vars(Acquire(c))
        /\ SF_vars(IdemAcquire(c))

SpecLocksFair == InitLocks /\ [][NextLocks]_vars /\ FairLocks

\* ================================================================== claims
\* the record of an identity as the next call will see it after
\* _ensure_records
Current(recs, id) == ensure_records(recs, id, today)[id]

\* the counters of an identity, 0 while its record does not exist yet
ReservedOf(recs, id) == IF id \in DOMAIN recs THEN recs[id].reserved_minutes ELSE 0
ActiveOf(recs, id)   == IF id \in DOMAIN recs THEN recs[id].active_jobs ELSE 0

\* the live (unsettled) job entries attributed to a user / to a tenant
JobsOfUser(u)   == {k \in DOMAIN jobs : jobs[k].user_id = u}
JobsOfTenant(t) == {k \in DOMAIN jobs : jobs[k].tenant_id = t}

RECURSIVE SumReserved(_)
SumReserved(keys) ==
    IF keys = {} THEN 0
    ELSE LET k == CHOOSE x \in keys : TRUE
         IN  jobs[k].reserved_minutes + SumReserved(keys \ {k})

\* ---- C1
\* C1: with the same limits passed to every reserve call, in every reachable
\* state each user's active_jobs is at most limits.concurrent_user and each
\* tenant's active_jobs is at most limits.concurrent_tenant.
C1_NoOversubscription ==
    /\ \A u \in DOMAIN user_records :
          user_records[u].active_jobs <= limits.concurrent_user
    /\ \A t \in DOMAIN tenant_records :
          tenant_records[t].active_jobs <= limits.concurrent_tenant

\* a tenant shared by two users with one job each is at its ceiling and a
\* further reserve has just been refused for it
C1_Witness ==
    /\ last = Call("reserve", "concurrency_tenant")
    /\ \A u \in Users : ActiveOf(user_records, u) = 1
    /\ \E t \in DOMAIN tenant_records :
          /\ tenant_records[t].active_jobs = limits.concurrent_tenant
          /\ JobsOfTenant(t) # {}

\* ---- C2
\* C2 (scenario part): with minutes_per_day = 1, a reserve of 1 minute for a
\* user with nothing used or reserved today succeeds, and a reserve of
\* 1 minute while 1 minute is reserved today fails with quota_day (the
\* concurrency checks passing in both cases).
C2_Scenario ==
    \A u \in Users, t \in Tenants, j \in Ids :
        (limits.minutes_per_day = 1 /\ Reserve(u, t, 1, j)
         /\ ConcurrencyReason(Current(user_records, u),
                              Current(tenant_records, t), limits) = "ok")
        => LET held == Current(user_records, u).minutes_today
                       + Current(user_records, u).reserved_minutes
           IN  /\ held = 0 => last'.result = "ok"
               /\ held = 1 => last'.result = "quota_day"

\* C2: with minutes_per_day fixed at a value > 0, under any interleaving of
\* reserve calls (rollbacks and period rollover in between) no user's
\* minutes_today + reserved_minutes ever exceeds minutes_per_day; with
\* minutes_per_day = 1 a first reserve of 1 minute succeeds and a second one
\* on the same day fails with quota_day.
C2_DayQuotaRespected ==
    /\ [](limits.minutes_per_day > 0 =>
            \A u \in DOMAIN user_records :
                user_records[u].minutes_today + user_records[u].reserved_minutes
                    <= limits.minutes_per_day)
    /\ [][C2_Scenario]_vars

\* the second reserve of the scenario has just been refused
C2_Witness ==
    /\ limits.minutes_per_day = 1
    /\ last = Call("reserve", "quota_day")
    /\ \E u \in DOMAIN user_records :
          /\ user_records[u].reserved_minutes = 1
          /\ user_records[u].day = today
          /\ user_records[u].active_jobs < limits.concurrent_user

\* ---- C3
\* C3: in every reachable state, for every user and every tenant, active_jobs
\* equals the number of unsettled job entries of the live job set attributed
\* to that identity (job ids may be reused, confirm may name a live key).
C3_ActiveJobsCountsJobs ==
    /\ \A u \in DOMAIN user_records :
          user_records[u].active_jobs = Cardinality(JobsOfUser(u))
    /\ \A t \in DOMAIN tenant_records :
          tenant_records[t].active_jobs = Cardinality(JobsOfTenant(t))

\* ---- C4
\* C4: in every reachable state, for every user and every tenant,
\* reserved_minutes equals the sum of reserved_minutes over the unsettled
\* jobs attributed to that identity, day and month boundaries included.
C4_ReservedSumsJobs ==
    /\ \A u \in DOMAIN user_records :
          user_records[u].reserved_minutes = SumReserved(JobsOfUser(u))
    /\ \A t \in DOMAIN tenant_records :
          tenant_records[t].reserved_minutes = SumReserved(JobsOfTenant(t))

\* ---- C5
\* C5: when a reserve succeeded and later exactly one commit or rollback is
\* applied to that job, with no other reserve or settlement for its user or
\* tenant in between (confirm, get_usage and period rollover may occur),
\* reserved_minutes and active_jobs of the user record and of the tenant
\* record are back at the values they had immediately before the reserve.
C5_Conservation ==
    [][(/\ track.key \in DOMAIN jobs
        /\ \/ \E m \in 1..MaxMinutes : Commit(track.key, m)
           \/ Rollback(track.key))
       => /\ ReservedOf(user_records', track.user) = track.uRes
          /\ ActiveOf(user_records', track.user) = track.uAct
          /\ ReservedOf(tenant_records', track.tenant) = track.tRes
          /\ ActiveOf(tenant_records', track.tenant) = track.tAct]_vars

\* ---- C6
\* C6: a commit or rollback removes its identifier from the job set, so a
\* second commit or rollback with the same identifier finds no live job; and
\* any commit or rollback with an identifier that names no live job raises
\* nothing and leaves every usage record and the job set unchanged.
C6_SettlementIdempotent ==
    [][\A k \in Ids :
          (\/ \E m \in 1..MaxMinutes : Commit(k, m)
           \/ Rollback(k))
          => /\ k \notin DOMAIN jobs'
             /\ k \notin DOMAIN jobs =>
                   /\ UNCHANGED <<user_records, tenant_records, jobs>>
                   /\ last'.result = "noop"]_vars

\* a settlement has just been a no-op although minutes were committed
\* before and another job is still live
C6_Witness ==
    /\ last.op \in {"commit", "rollback"}
    /\ last.result = "noop"
    /\ jobs # <<>>
    /\ \E u \in DOMAIN user_records : user_records[u].minutes_today > 0

\* ---- C7
\* the preconditions of reserve in their documented order: the reason of the
\* first one that is violated, "ok" if none is
FirstViolated(user, tenant, minutes, lim) ==
    IF ~(user.active_jobs < lim.concurrent_user) THEN "concurrency_user"
    ELSE IF ~(tenant.active_jobs < lim.concurrent_tenant)
         THEN "concurrency_tenant"
    ELSE IF lim.minutes_per_day > 0
            /\ ~(user.minutes_today + user.reserved_minutes + minutes
                    <= lim.minutes_per_day)
         THEN "quota_day"
    ELSE IF lim.minutes_per_month > 0
            /\ ~(user.minutes_month + user.reserved_minutes + minutes
                    <= lim.minutes_per_month)
         THEN "quota_month"
    ELSE "ok"

\* C7: reserve evaluates its preconditions in the order concurrency_user,
\* concurrency_tenant, quota_day, quota_month and fails with the reason of
\* the first violated one (so concurrency_user whenever the user is at its
\* ceiling, and a quota reason only when both concurrency checks pass).
C7_CheckOrder ==
    [][\A u \in Users, t \in Tenants, m \in 1..MaxMinutes, j \in Ids :
          Reserve(u, t, m, j)
          => last'.result = FirstViolated(Current(user_records, u),
                                          Current(tenant_records, t),
                                          m, limits)]_vars

\* ---- C8
\* C8: a limit value of 0 means unlimited: with minutes_per_day = 0 reserve
\* never fails with quota_day, with minutes_per_month = 0 it never fails
\* with quota_month.
C8_ZeroMeansUnlimited ==
    last.op = "reserve" =>
        /\ limits.minutes_per_day = 0 => last.result # "quota_day"
        /\ limits.minutes_per_month = 0 => last.result # "quota_month"

\* ---- C9
\* C9: when reserve fails with a reason, no job entry is created for job_id
\* and reserved_minutes and active_jobs of the user record and of the tenant
\* record are unchanged.
C9_DeniedReserveChangesNothing ==
    [][\A u \in Users, t \in Tenants, m \in 1..MaxMinutes, j \in Ids :
          (Reserve(u, t, m, j) /\ last'.result # "ok")
          => /\ jobs' = jobs
             /\ ReservedOf(user_records', u) = ReservedOf(user_records, u)
             /\ ActiveOf(user_records', u) = ActiveOf(user_records, u)
             /\ ReservedOf(tenant_records', t) = ReservedOf(tenant_records, t)
             /\ ActiveOf(tenant_records', t) = ActiveOf(tenant_records, t)]_vars

\* ---- C10
\* C10 as stated: a successful confirm(job_id, external_task_id) changes no
\* counter of any usage record; afterwards the job is live under
\* external_task_id and no job is live under job_id.
C10_ConfirmRekeys ==
    [][\A r \in Ids, k \in Ids :
          (Confirm(r, k) /\ last'.result = "ok")
          => /\ UNCHANGED <<user_records, tenant_records>>
             /\ k \in DOMAIN jobs'
             /\ jobs'[k] = [jobs[r] EXCEPT !.task_id = k]
             /\ r \notin DOMAIN jobs']_vars

\* C10 amended: a successful confirm(job_id, external_task_id) changes no
\* counter of any usage record; afterwards the job is live under
\* external_task_id, and no job is live under job_id provided
\* external_task_id differs from job_id.
C10_ConfirmRekeysDistinct ==
    [][\A r \in Ids, k \in Ids :
          (Confirm(r, k) /\ last'.result = "ok")
          => /\ UNCHANGED <<user_records, tenant_records>>
             /\ k \in DOMAIN jobs'
             /\ jobs'[k] = [jobs[r] EXCEPT !.task_id = k]
             /\ r # k => r \notin DOMAIN jobs']_vars

\* a confirm has just succeeded: the one live job is found under j2 only and
\* its user's counters still hold the reservation
C10_Witness ==
    /\ last = Call("confirm", "ok")
    /\ DOMAIN jobs = {"j2"}
    /\ jobs["j2"].task_id = "j2"
    /\ ReservedOf(user_records, jobs["j2"].user_id) = jobs["j2"].reserved_minutes
    /\ ActiveOf(user_records, jobs["j2"].user_id) = 1

\* ---- C11
\* C11: confirm(job_id, external_task_id) succeeds only if a job in state
\* RESERVED is live under job_id; when the id was never reserved, names a
\* settled job or names a job that is already CONFIRMED, it fails with
\* reservation_missing and leaves the job set and all counters unchanged, so
\* a job is confirmed at most once.
C11_ConfirmOnlyReserved ==
    [][\A r \in Ids, k \in Ids :
          Confirm(r, k)
          => /\ last'.result = "ok" <=> (r \in DOMAIN jobs /\ r \notin confirmed)
             /\ last'.result # "ok" =>
                   /\ last'.result = "reservation_missing"
                   /\ UNCHANGED <<jobs, user_records, tenant_records>>]_vars

\* ---- C12
\* what a settlement of job `job` with `minutes_actual` charged must make of
\* a record `before`: the minutes of the current period plus the actual
\* minutes, the reservation released
SettledRecord(before, after, job, minutes_actual) ==
    /\ after.minutes_today
          = apply_period_rollover(before, today).minutes_today + minutes_actual
    /\ after.minutes_month
          = apply_period_rollover(before, today).minutes_month + minutes_actual
    /\ after.reserved_minutes = before.reserved_minutes - job.reserved_minutes
    /\ after.active_jobs = before.active_jobs - 1

\* C12: commit(task_id, actual_minutes) on a live job adds exactly
\* actual_minutes (not the estimate) to minutes_today and minutes_month of
\* the job's user and tenant record, decreases reserved_minutes of both by
\* the job's reserved amount and active_jobs of both by 1, and removes the
\* job.
C12_CommitChargesActuals ==
    [][\A k \in Ids, m \in 1..MaxMinutes :
          (k \in DOMAIN jobs /\ Commit(k, m))
          => /\ k \notin DOMAIN jobs'
             /\ SettledRecord(user_records[jobs[k].user_id],
                              user_records'[jobs[k].user_id], jobs[k], m)
             /\ SettledRecord(tenant_records[jobs[k].tenant_id],
                              tenant_records'[jobs[k].tenant_id], jobs[k], m)]_vars

\* ---- C13
\* what a rollback of job `job` must make of a record `before`: the
\* reservation released, the consumed minutes untouched unless the record
\* enters a new period
ReleasedRecord(before, after, job) ==
    /\ after.reserved_minutes = before.reserved_minutes - job.reserved_minutes
    /\ after.active_jobs = before.active_jobs - 1
    /\ before.day = today =>
          /\ after.minutes_today = before.minutes_today
          /\ after.minutes_month = before.minutes_month

\* C13: rollback on a live job decreases reserved_minutes by the job's
\* reserved amount and active_jobs by 1 on both records and removes the job;
\* it leaves minutes_today and minutes_month of both records unchanged when
\* no period boundary is crossed.
C13_RollbackReleases ==
    [][\A k \in Ids :
          (k \in DOMAIN jobs /\ Rollback(k))
          => /\ k \notin DOMAIN jobs'
             /\ ReleasedRecord(user_records[jobs[k].user_id],
                               user_records'[jobs[k].user_id], jobs[k])
             /\ ReleasedRecord(tenant_records[jobs[k].tenant_id],
                               tenant_records'[jobs[k].tenant_id], jobs[k])]_vars

\* ---- C14, C15
\* the operations whose only effect on the records of u and t is
\* _ensure_records: get_usage, and a reserve that is denied
Touches(u, t) ==
    \/ last'.op = "get_usage" /\ GetUsage(u, t)
    \/ /\ last'.op = "reserve" /\ last'.result # "ok"
       /\ \E m \in 1..MaxMinutes, j \in Ids : Reserve(u, t, m, j)

DayChanged(record) ==
    record.day # today /\ record.month = MonthOf(today)

MonthChanged(record) == record.month # MonthOf(today)

RolledDay(before, after) ==
    /\ after.minutes_today = 0
    /\ after.day = today
    /\ after.minutes_month = before.minutes_month
    /\ after.reserved_minutes = before.reserved_minutes
    /\ after.active_jobs = before.active_jobs

\* C14: when an operation touches a record after the day has changed within
\* the same month, minutes_today becomes 0 and the period day advances,
\* while minutes_month, reserved_minutes and active_jobs stay as they were.
C14_DayRolloverIsolated ==
    [][\A u \in Users, t \in Tenants :
          /\ (u \in DOMAIN user_records /\ DayChanged(user_records[u])
                 /\ Touches(u, t))
                => RolledDay(user_records[u], user_records'[u])
          /\ (t \in DOMAIN tenant_records /\ DayChanged(tenant_records[t])
                 /\ Touches(u, t))
                => RolledDay(tenant_records[t], tenant_records'[t])]_vars

RolledMonthOnly(before, after) ==
    /\ after.minutes_month = 0
    /\ after.month = MonthOf(today)
    /\ after.minutes_today = before.minutes_today

RolledMonth(before, after) ==
    /\ after.minutes_month = 0
    /\ after.month = MonthOf(today)
    /\ after.minutes_today = 0
    /\ after.day = today

\* C15 as stated: when an operation touches a record after the month has
\* changed, minutes_month becomes 0 and the period month advances, and
\* minutes_today is not affected.
C15_MonthRolloverKeepsToday ==
    [][\A u \in Users, t \in Tenants :
          /\ (u \in DOMAIN user_records /\ MonthChanged(user_records[u])
                 /\ Touches(u, t))
                => RolledMonthOnly(user_records[u], user_records'[u])
          /\ (t \in DOMAIN tenant_records /\ MonthChanged(tenant_records[t])
                 /\ Touches(u, t))
                => RolledMonthOnly(tenant_records[t], tenant_records'[t])]_vars

\* C15 amended: when an operation touches a record after the month has
\* changed, minutes_month becomes 0 and the period month advances; the day
\* has changed with the month, so minutes_today becomes 0 as well and the
\* period day advances.
C15_MonthRollover ==
    [][\A u \in Users, t \in Tenants :
          /\ (u \in DOMAIN user_records /\ MonthChanged(user_records[u])
                 /\ Touches(u, t))
                => RolledMonth(user_records[u], user_records'[u])
          /\ (t \in DOMAIN tenant_records /\ MonthChanged(tenant_records[t])
                 /\ Touches(u, t))
                => RolledMonth(tenant_records[t], tenant_records'[t])]_vars

\* a tenant record brought into the new month by get_usage while a record
\* of one of its users still carries the minutes charged to both of them in
\* the month before
C15_Witness ==
    /\ last.op = "get_usage"
    /\ \E u \in DOMAIN user_records, t \in DOMAIN tenant_records :
          /\ user_records[u].month # MonthOf(today)
          /\ user_records[u].minutes_month > 0
          /\ user_records[u].minutes_today > 0
          /\ tenant_records[t].month = MonthOf(today)
          /\ tenant_records[t].minutes_month = 0
          /\ tenant_records[t].minutes_today = 0

\* ---- C16
\* no period boundary lies between the record of id, if there is one, and
\* the current day
InPeriod(recs, id) == id \in DOMAIN recs => recs[id].day = today

\* recs2 is recs, with an all-zero record for id if recs had none
SameOrCreated(recs, recs2, id) ==
    /\ DOMAIN recs2 = DOMAIN recs \cup {id}
    /\ \A i \in DOMAIN recs : recs2[i] = recs[i]
    /\ id \notin DOMAIN recs => recs2[id] = NewRecord(today)

Shows(shown, record) ==
    /\ shown.minutes_today = record.minutes_today
    /\ shown.minutes_month = record.minutes_month
    /\ shown.reserved_minutes = record.reserved_minutes
    /\ shown.active_jobs = record.active_jobs

\* C16: get_usage(user_id, tenant_id), when no period boundary has been
\* crossed, changes no counter of any record and no job entry (it may
\* create all-zero records), and the snapshot it returns equals the
\* current counters of the user record and of the tenant record.
C16_GetUsageReadOnly ==
    [][\A u \in Users, t \in Tenants :
          (/\ last'.op = "get_usage"
           /\ InPeriod(user_records, u) /\ InPeriod(tenant_records, t)
           /\ GetUsage(u, t))
          => /\ jobs' = jobs
             /\ SameOrCreated(user_records, user_records', u)
             /\ SameOrCreated(tenant_records, tenant_records', t)
             /\ Shows(last'.usage.user, user_records'[u])
             /\ Shows(last'.usage.tenant, tenant_records'[t])]_vars

\* get_usage has just returned, within the period, a snapshot in which the
\* tenant's counters differ from the user's and something is in flight
C16_Witness ==
    /\ last.op = "get_usage"
    /\ last.usage.user # last.usage.tenant
    /\ last.usage.tenant.reserved_minutes > 0
    /\ last.usage.tenant.minutes_today > 0
    /\ \E u \in DOMAIN user_records :
          /\ user_records[u].day = today
          /\ Shows(last.usage.user, user_records[u])

\* ---- C17
NonNegative(record) ==
    /\ record.minutes_today >= 0
    /\ record.minutes_month >= 0
    /\ record.reserved_minutes >= 0
    /\ record.active_jobs >= 0

\* C17: in every reachable state the four counters of every user record
\* and of every tenant record are >= 0, duplicate settlements and
\* settlements after a period rollover included.
C17_CountersNonNegative ==
    /\ \A u \in DOMAIN user_records : NonNegative(user_records[u])
    /\ \A t \in DOMAIN tenant_records : NonNegative(tenant_records[t])

\* a settlement has just acted on a record of the current day that holds
\* no reserved minutes although a job reserved earlier against it is live
C17_Witness ==
    /\ last.op \in {"commit", "rollback"}
    /\ last.result = "settled"
    /\ \E k \in DOMAIN jobs :
          /\ tenant_records[jobs[k].tenant_id].day = today
          /\ tenant_records[jobs[k].tenant_id].reserved_minutes = 0
          /\ tenant_records[jobs[k].tenant_id].active_jobs > 0

\* ---- C18
\* C18: after every allow call the token count stored for every scope is
\* >= 0, and the count stored for the scope of the call is at most the rate
\* of that call, in the process-local bucket and in the Redis hash alike,
\* whatever rates earlier calls passed for the scope.
C18_TokensBounded ==
    /\ \A k \in DOMAIN buckets : buckets[k].tokens >= 0
    /\ \A k \in DOMAIN redis : redis[k].tokens >= 0
    /\ last.op = "allow" =>
          /\ buckets[last.key].tokens <= last.rate * Den
          /\ redis[last.key].tokens <= last.rate * Den

\* a call that costs nothing and passes a lower rate than the first call
\* for its scope has left both stores exactly at its own capacity
C18_Witness ==
    /\ last.op = "allow"
    /\ last.cost = 0
    /\ last.rate < calls[last.key].rate
    /\ buckets[last.key].tokens = last.rate * Den
    /\ redis[last.key].tokens = last.rate * Den

\* ---- C19
\* the tokens allow finds for a scope: a full bucket at the first call,
\* afterwards the stored count plus rate / window per second elapsed, at
\* most rate
Available(key, rate, window_seconds) ==
    IF key \notin DOMAIN buckets THEN rate * Den
    ELSE LET grown == buckets[key].tokens
                        + ((now - buckets[key].last) * rate * Den)
                             \div window_seconds
         IN  IF grown > rate * Den THEN rate * Den ELSE grown

\* C19: allow(scope, rate, cost, window) returns true and takes exactly
\* cost tokens iff the tokens after the refill are >= cost; otherwise it
\* returns false and stores exactly the refilled count; either way it
\* stores the new timestamp and leaves the other scopes alone.
C19_AdmitIffEnoughTokens ==
    [][last'.op = "allow" =>
          \A window_seconds \in 1..MaxWindow :
              Allow(last'.key, last'.rate, last'.cost, window_seconds)
              => LET found == Available(last'.key, last'.rate, window_seconds)
                     enough == found >= last'.cost * Den
                 IN  /\ last'.allowed <=> enough
                     /\ buckets'[last'.key].tokens
                          = IF enough THEN found - last'.cost * Den ELSE found
                     /\ buckets'[last'.key].last = now
                     /\ \A k \in DOMAIN buckets \ {last'.key} :
                           buckets'[k] = buckets[k]
                     /\ DOMAIN buckets' = DOMAIN buckets \cup {last'.key}]_vars

\* a call has been denied after a refill of part of a token: what is stored
\* is that count, not a whole number of tokens, with the time of the call
C19_Witness ==
    /\ last.op = "allow"
    /\ ~last.allowed
    /\ buckets[last.key].last = now
    /\ buckets[last.key].tokens % Den # 0

\* ---- C20
\* C20: of n allow calls with cost 1 and one rate made on a fresh scope
\* while no time elapses, exactly min(n, rate) are admitted, whatever calls
\* on other scopes come in between.
C20_BurstAdmitsRate ==
    \A key \in DOMAIN calls :
        calls[key].open =>
            calls[key].admitted = Min(calls[key].n, calls[key].rate)

\* a burst longer than the rate on one scope, its last call denied, with a
\* call on the other scope at the same instant
C20_Witness ==
    /\ last.op = "allow"
    /\ ~last.allowed
    /\ last.key \in DOMAIN calls
    /\ calls[last.key].open
    /\ calls[last.key].n > calls[last.key].rate
    /\ calls[last.key].rate > 1
    /\ calls[last.key].admitted = calls[last.key].rate
    /\ \E k \in DOMAIN buckets \ {last.key} :
          buckets[k].last = calls[last.key].at

\* ---- C21
\* C21: the process-local bucket and the Redis script, given the same
\* allow calls at the same times, return the same decision at every call,
\* also when the time to live of the Redis hash has run out.
C21_BackendsAgree ==
    last.op = "allow" => (last.allowed <=> last.redis_allowed)

\* ---- C22
RateDenials == {"rate_limited_user", "rate_limited_tenant"}

\* C22: in the transcribe handler the rate limiter comes before reserve and
\* a successful reserve before the dispatch: a request the limiter denies
\* leaves the usage store as it was and ends; reserve is called only by a
\* request that has passed the limiter, which has taken a token of its user
\* and of its tenant; the backend is called only by a request whose
\* reservation is then held, so never by one whose reserve was denied.
C22_LimiterReserveDispatch ==
    [][/\ (last'.op = "transcribe" /\ last'.detail \in RateDenials)
            => /\ UNCHANGED <<user_records, tenant_records, jobs>>
               /\ \A r \in Reqs : reqs'[r].pc \in {"idle", reqs[r].pc}
       /\ \A r \in Reqs :
            /\ <<user_records, tenant_records, jobs>>'
                    # <<user_records, tenant_records, jobs>>
                 /\ reqs'[r] # reqs[r]
                 /\ reqs[r].pc # "posted"
               => /\ reqs[r].pc = "read"
                  /\ buckets[UserKey(reqs[r].user)].tokens
                        < settings.rpm_per_user * Den
                  /\ buckets[TenantKey(TenantOf(reqs[r].user))].tokens
                        < settings.rpm_per_tenant * Den
            /\ reqs'[r].pc = "posted"
               => /\ r \in DOMAIN jobs'
                  /\ jobs'[r].user_id = reqs'[r].user
                  /\ reqs[r].pc \in {"read", "posted"}]_vars

\* the limiter has just turned a transcribe request away while the store
\* holds a job, and the request is over
C22_Witness ==
    /\ last.op = "transcribe"
    /\ last.detail \in RateDenials
    /\ DOMAIN jobs # {}
    /\ \A r \in Reqs : reqs[r].pc = "idle"

\* ---- C23
\* C23: whenever the dispatch fails after a successful reserve (error
\* status, network error, any other exception, or a payload without task
\* id) the handler ends with the reservation rolled back: the job is gone
\* and the records are those rollback leaves.
C23_DispatchFailureRollsBack ==
    [][\A r \in Reqs, answer \in PostFailures :
          (reqs[r].pc = "posted" /\ TranscribeSettle(r, answer))
          => /\ r \notin DOMAIN jobs'
             /\ user_records' = rollback(StoreNow, r).user_records
             /\ tenant_records' = rollback(StoreNow, r).tenant_records
             /\ jobs' = rollback(StoreNow, r).jobs]_vars

\* ---- C27
\* the transcribe invocation r, whose reserve has succeeded, ends in this
\* step
EndsReserved(r) ==
    /\ reqs'[r].pc = "idle"
    /\ \/ reqs[r].pc = "posted"
       \/ reqs[r].pc = "read" /\ last'.op = "transcribe" /\ last'.status = 200

\* C27: every transcribe invocation whose reserve succeeded ends with no job
\* left under its reservation id; when it answers with the backend's task
\* id after a dispatch, its job is held under that task id.
C27_NoJobLeftReserved ==
    [][\A r \in Reqs :
          EndsReserved(r)
          => /\ r \notin DOMAIN jobs'
             /\ (reqs[r].pc = "posted" /\ last'.status = 200)
                  => /\ last'.detail \in DOMAIN jobs'
                     /\ jobs'[last'.detail]
                          = [jobs[r] EXCEPT !.task_id = last'.detail]]_vars

\* ---- C28
\* C28: of the transcribe requests of one user that carry the same
\* Idempotency-Key, at most one is with the backend at any time, so at most
\* one reservation for that key is open.
C28_OneDispatchPerKey ==
    \A r1 \in Reqs, r2 \in Reqs :
        (/\ r1 # r2
         /\ reqs[r1].pc = "posted" /\ reqs[r2].pc = "posted"
         /\ reqs[r1].user = reqs[r2].user
         /\ reqs[r1].key = reqs[r2].key)
        => reqs[r1].key = None

\* ---- C29
\* the counters of the record of id that a reservation moves
Held(recs, id) ==
    [reserved_minutes |-> recs[id].reserved_minutes,
     active_jobs |-> recs[id].active_jobs]

\* C29: a transcribe request that finds a payload cached for its user and
\* Idempotency-Key after passing the limiter and reserve answers with that
\* payload, does not call the backend, and leaves reserved_minutes and
\* active_jobs of its user and tenant as they were before it reserved.
C29_ReplayLeavesCounters ==
    [][\A r \in Reqs :
          (/\ reqs[r].pc = "read"
           /\ reqs[r].key # None
           /\ <<reqs[r].user, reqs[r].key>> \in DOMAIN idem_cache
           /\ last'.op = "transcribe"
           /\ last'.status \notin {400, 409, 413, 429}
           /\ reqs'[r] # reqs[r])
          => /\ last' = Reply("transcribe", 200,
                              idem_cache[<<reqs[r].user, reqs[r].key>>])
             /\ reqs'[r].pc = "idle"
             /\ Held(user_records', reqs[r].user)
                  = Held(user_records, reqs[r].user)
             /\ Held(tenant_records', TenantOf(reqs[r].user))
                  = Held(tenant_records, TenantOf(reqs[r].user))
             /\ jobs' = jobs]_vars

\* ---- C24
\* the minutes a completed task of `duration` seconds is charged: every
\* started minute, at least one
StartedMinutes(duration) ==
    IF duration > 60 THEN (duration + 59) \div 60 ELSE 1

TerminalFailures == {"failed", "cancelled"}

\* C24: when the backend's answer to a status poll is handled, completed
\* on a live job is commit with the started minutes of the duration (the
\* job is gone, the minutes are added to the month of its user and tenant),
\* failed or cancelled on a live job is rollback (the job is gone, no
\* minutes are added), and any other answer, or any answer for a task that
\* is no longer live (a repeated poll of a settled job), changes no record
\* and no job.
C24_StatusSettlesOnce ==
    [][\A answer \in StatusAnswers, duration \in Durations :
          (poll.pc = "waiting" /\ StatusSettle(answer, duration))
          => LET k == poll.task_id
                 live == k \in DOMAIN jobs
                 minutes == StartedMinutes(duration)
                 user == jobs[k].user_id
                 tenant == jobs[k].tenant_id
             IN  /\ (answer = "completed" /\ live)
                      => /\ k \notin DOMAIN jobs'
                         /\ user_records' = commit(StoreNow, k, minutes).user_records
                         /\ tenant_records' = commit(StoreNow, k, minutes).tenant_records
                         /\ user_records'[user].minutes_month
                              = apply_period_rollover(user_records[user], today)
                                    .minutes_month + minutes
                         /\ tenant_records'[tenant].minutes_month
                              = apply_period_rollover(tenant_records[tenant], today)
                                    .minutes_month + minutes
                 /\ (answer \in TerminalFailures /\ live)
                      => /\ k \notin DOMAIN jobs'
                         /\ user_records' = rollback(StoreNow, k).user_records
                         /\ tenant_records' = rollback(StoreNow, k).tenant_records
                         /\ user_records'[user].minutes_month
                              = apply_period_rollover(user_records[user], today)
                                    .minutes_month
                 /\ (answer \notin TerminalFailures \cup {"completed"} \/ ~live)
                      => UNCHANGED <<user_records, tenant_records, jobs>>]_vars

\* a completed job of more than one minute has been charged, and a third
\* request (a second poll) has been answered since its transcribe
C24_Witness ==
    /\ last = Reply("status", 200, "completed")
    /\ jobs = <<>>
    /\ \E u \in DOMAIN user_records :
          /\ user_records[u].minutes_month = 2
          /\ user_records[u].active_jobs = 0
          /\ tenant_records[TenantOf(u)].minutes_month = 2
    /\ TenantKey("t1") \in DOMAIN buckets
    /\ buckets[TenantKey("t1")].tokens = 0

\* ---- C25
ConcurrencyDenials == {"concurrency_user", "concurrency_tenant"}
QuotaDenials == {"quota_day", "quota_month"}

\* what the rate limiter makes of a request `op` of user u: without a token
\* on the user scope the answer is 429 rate_limited_user and the tenant
\* scope is not asked; with one, and none on the tenant scope, it is 429
\* rate_limited_tenant; with both the request goes on
LimiterSignal(op, u) ==
    LET tenant_key == TenantKey(TenantOf(u))
        user_tokens == Available(UserKey(u), settings.rpm_per_user,
                                 DefaultWindow)
        tenant_tokens == Available(tenant_key, settings.rpm_per_tenant,
                                   DefaultWindow)
    IN  /\ user_tokens < Den
             => /\ last' = Reply(op, 429, "rate_limited_user")
                /\ tenant_key \in DOMAIN buckets' <=> tenant_key \in DOMAIN buckets
                /\ tenant_key \in DOMAIN buckets
                     => buckets'[tenant_key] = buckets[tenant_key]
        /\ (user_tokens >= Den /\ tenant_tokens < Den)
             => /\ last' = Reply(op, 429, "rate_limited_tenant")
                /\ buckets'[UserKey(u)].tokens = user_tokens - Den
        /\ (user_tokens >= Den /\ tenant_tokens >= Den)
             => last'.op # op

\* C25: a request denied by the rate limiter is answered 429 with
\* rate_limited_user when the user scope has no token (the tenant scope is
\* then not asked) and with rate_limited_tenant when only the tenant scope
\* has none; a request whose reserve is denied is answered 409 with the
\* reason for concurrency_user and concurrency_tenant and 429 with the
\* reason for quota_day and quota_month.
C25_DenialSignals ==
    [][/\ \A r \in Reqs, u \in Users, key \in IdemKeys \cup {None} :
            (reqs[r].pc = "idle" /\ TranscribeAdmit(r, u, key, "ok"))
            => LimiterSignal("transcribe", u)
       /\ \A u \in Users, k \in Ids :
            (poll.pc = "idle" /\ StatusAdmit(u, k, "ok"))
            => LimiterSignal("status", u)
       /\ \A r \in Reqs, m \in 1..MaxMinutes :
            (reqs[r].pc = "read" /\ TranscribeReserve(r, "ok", m))
            => LET u == reqs[r].user
                   t == TenantOf(u)
                   reason == ReserveReason(
                                 ensure_records(user_records, u, today)[u],
                                 ensure_records(tenant_records, t, today)[t],
                                 m, limits)
               IN  /\ reason \in ConcurrencyDenials
                        => last' = Reply("transcribe", 409, reason)
                   /\ reason \in QuotaDenials
                        => last' = Reply("transcribe", 429, reason)
                   /\ reason = "ok" => last'.op = "dispatch"]_vars

\* a reserve has been refused for the month's quota, after a job was
\* charged and the day changed
C25_Witness ==
    /\ last = Reply("transcribe", 429, "quota_month")
    /\ today = 1
    /\ \E u \in DOMAIN user_records : user_records[u].minutes_month > 0

\* ---- C26
\* the store positions at which a coroutine is inside `async with
\* self._lock:`
InsideStore == {"b1", "b2", "b3", "release"}

\* a coroutine inside a store method holds the lock: no two are inside
Exclusive ==
    \A c \in Reqs : tasks[c].at \in InsideStore => store_lock = c

\* the store and the outcome that the method the coroutine is in makes, run
\* alone, of the store it found
Serial(task) ==
    LET u == task.user
        t == TenantOf(u)
    IN  IF task.pc = "reserve"
        THEN [st |-> reserve(task.seen, u, t, task.minutes, task.id).st,
              ret |-> reserve(task.seen, u, t, task.minutes, task.id).reason]
        ELSE IF task.pc = "confirm"
        THEN [st |-> confirm(task.seen, task.id, task.task_id).st,
              ret |-> IF confirm(task.seen, task.id, task.task_id).ok
                      THEN "ok" ELSE "reservation_missing"]
        ELSE IF task.pc = "commit"
        THEN [st |-> commit(task.seen, task.id, task.minutes),
              ret |-> IF task.id \in DOMAIN task.seen.jobs THEN "ok" ELSE "noop"]
        ELSE IF task.pc \in Rollbacks
        THEN [st |-> rollback(task.seen, task.id),
              ret |-> IF task.id \in DOMAIN task.seen.jobs THEN "ok" ELSE "noop"]
        ELSE [st |-> get_usage(task.seen, u, t),
              ret |-> Snapshot(get_usage(task.seen, u, t).user_records[u],
                               get_usage(task.seen, u, t).tenant_records[t])]

\* C26: the store methods are serialized.  A coroutine inside a store
\* method holds the store lock, so no other is inside; records and jobs
\* change only in steps of the coroutine that holds the lock; and when a
\* method leaves the lock, the store and the method's outcome (the reason
\* of a reserve, the counters get_usage returns) are those of the whole
\* method applied to the store it found on entry: the outcomes are those
\* of the methods run one after another in the order they took the lock.
C26_StoreSerialized ==
    /\ []Exclusive
    /\ [][/\ <<user_records, tenant_records, jobs>>'
                # <<user_records, tenant_records, jobs>>
             => store_lock # None /\ store_lock' = store_lock
          /\ \A c \in Reqs :
                (tasks[c].at = "release" /\ tasks'[c].at # "release")
                => /\ StoreNow = Serial(tasks[c]).st
                   /\ tasks[c].ret = Serial(tasks[c]).ret
          /\ \A c \in Reqs :
                (tasks[c].at = "acquire" /\ tasks'[c].at # "acquire")
                => /\ tasks'[c].seen = StoreNow
                   /\ store_lock = None]_vars

\* a reserve has changed the user's record and not yet the tenant's, while
\* a second reserve of the same user waits for the lock
C26_Witness ==
    \E c \in Reqs, d \in Reqs :
        /\ tasks[c].pc = "reserve" /\ tasks[c].at = "b3"
        /\ tasks[d].pc = "reserve" /\ tasks[d].at = "acquire"
        /\ tasks[c].user = tasks[d].user
        /\ user_records[tasks[c].user].active_jobs
              # tenant_records[TenantOf(tasks[c].user)].active_jobs

\* ---- C30
\* the coroutine c waits for the idempotency lock
WaitsIdem(c) == tasks[c].pc \in {"idem1_acquire", "idem2_acquire"}

\* the coroutine c waits for the store lock
WaitsStore(c) == tasks[c].at = "acquire"

\* no coroutine that holds the store lock waits for the idempotency lock,
\* and a coroutine that holds both has taken the idempotency lock first: it
\* is in the rollback of a replay
LockOrder ==
    \A c \in Reqs :
        /\ store_lock = c => ~WaitsIdem(c)
        /\ (store_lock = c /\ idem_lock = c) => tasks[c].pc = "replay_rollback"

\* C30: the handlers do not deadlock.  A coroutine never takes or awaits
\* the idempotency lock while it holds the store lock (where both are held,
\* the idempotency lock was taken first); every coroutine that holds a lock
\* releases it; and every coroutine that waits for a lock gets it.
C30_NoDeadlock ==
    /\ []LockOrder
    /\ [][\A c \in Reqs :
             (idem_lock' = c /\ idem_lock # c) => store_lock # c]_vars
    /\ \A c \in Reqs :
          /\ (store_lock = c) ~> (store_lock # c)
          /\ (idem_lock = c) ~> (idem_lock # c)
          /\ WaitsStore(c) ~> (store_lock = c)
          /\ WaitsIdem(c) ~> (idem_lock = c)

\* a replay holds the idempotency lock and waits for the store lock, which
\* the other coroutine holds, while that one is inside a store method
C30_Witness ==
    \E c \in Reqs, d \in Reqs :
        /\ idem_lock = c /\ tasks[c].pc = "replay_rollback" /\ WaitsStore(c)
        /\ store_lock = d /\ d # c

====
